---- MODULE Spec2Model ----
(***************************************************************************)
(* Model of network/src/ckb_service.rs: CKBService::handle_protocol_       *)
(* connection.  Every negotiated session is one process; its synchronous   *)
(* part (slot claim, state check, peer index lookup, tie_or_stop, Peer     *)
(* Store bookkeeping, spawn of handle_connected) and the future it returns *)
(* (inbound loop, teardown closure) are split at every point where the     *)
(* code takes or releases a lock, since sessions run on a thread pool.     *)
(***************************************************************************)
EXTENDS Integers, FiniteSets, Sequences, TLC

\* ---- bounds ----
NumSessions == 2
MaxMsgs == 2
MaxTime == 1

\* ---- domains ----
\* Sessions of different peers share nothing but the clock; one peer with two
\* protocols has every kind of sharing: same slot, and same peer only.
Sessions == 1..NumSessions
PeerIds == {"A"}
ProtocolIds == {1, 2}
Endpoints == {"Dialer", "Listener"}
None == -1
Empty == 0

NoSession == [peer_id |-> "A", protocol_id |-> 1]

VARIABLES
    pc,            \* position of each session in handle_protocol_connection
    session,       \* peer_id / protocol_id of the CKBProtocolOutput of a session
    result,        \* outcome of the slot claim ("none" before it is made)
    tied,          \* whether the session's tie_or_stop made the slot Full
    val,           \* completion value of the tie_or_stop future ("none" while pending)
    consumed,      \* number of items taken from the session's incoming_stream
    peers,         \* Network Registry: peers present, with last_message_time
    protocol_connec, \* UniqueConnec slot of each (peer, protocol): Empty or the owner
    peer_store,    \* Peer Store: status and behaviour reports of each peer
    updates,       \* Status updates written by each session (history)
    spawned,       \* tasks handed to tokio::spawn and not yet run
    handler,       \* what the protocol handler has been called with, per session
    now            \* last reading of unix_time_as_millis

vars == <<pc, session, result, tied, val, consumed, peers, protocol_connec, peer_store,
          updates, spawned, handler, now>>

Slots == PeerIds \X ProtocolIds

SlotOf(s) == <<session[s].peer_id, session[s].protocol_id>>

Init ==
    /\ pc = [s \in Sessions |-> "new"]
    /\ session = [s \in Sessions |-> NoSession]
    /\ result = [s \in Sessions |-> "none"]
    /\ tied = [s \in Sessions |-> FALSE]
    /\ val = [s \in Sessions |-> "none"]
    /\ consumed = [s \in Sessions |-> 0]
    /\ peers = [p \in PeerIds |-> [present |-> FALSE, last_message_time |-> None]]
    /\ protocol_connec = [c \in Slots |-> Empty]
    /\ peer_store = [p \in PeerIds |->
          [status |-> "Unknown", Connect |-> 0, UnexpectedDisconnect |-> 0,
           Connected |-> 0, Disconnected |-> 0]]
    /\ updates = [s \in Sessions |-> [Connected |-> 0, Disconnected |-> 0]]
    /\ spawned = {}
    /\ handler = [s \in Sessions |->
          [connected |-> 0, received |-> {}, disconnected |-> 0]]
    /\ now = 0

\* ---- Network Registry ----

\* try_outbound_ckb_protocol_connec / try_inbound_ckb_protocol_connec on
\* success: the peer is admitted to the registry if it is not there yet.
try_ckb_protocol_connec(p) ==
    IF peers[p].present THEN peers
    ELSE [peers EXCEPT ![p] = [present |-> TRUE, last_message_time |-> None]]

get_peer_index(p) == peers[p].present

modify_peer(p, t) ==
    IF peers[p].present THEN [peers EXCEPT ![p].last_message_time = t]
    ELSE peers

\* remove_peer that goes through an insert-if-absent lookup.
remove_peer_Entry(registry, p) ==
    IF registry[p].present
    THEN [registry EXCEPT ![p] = [present |-> FALSE, last_message_time |-> None]]
    ELSE [registry EXCEPT ![p] = [present |-> TRUE, last_message_time |-> None]]

\* removal of a peer from a registry; an absent peer stays absent
remove_peer(registry, p) ==
    [registry EXCEPT ![p] = [present |-> FALSE, last_message_time |-> None]]

drop_peer(p) == remove_peer(peers, p)

\* ---- Protocol Connection ----

\* UniqueConnec::state
state(c) == IF protocol_connec[c] = Empty THEN "Empty" ELSE "Full"

\* ---- Peer Store ----

report(store, p, behaviour) ==
    [store EXCEPT ![p][behaviour] = @ + 1]

update_status(store, p, status) ==
    [store EXCEPT ![p].status = status, ![p][status] = @ + 1]

\* ---- handle_protocol_connection, synchronous part ----

\* Slot claim succeeded: protocol_connec is the slot of (peer, protocol).
ClaimOk(s, p, id, endpoint) ==
    /\ pc[s] = "new"
    /\ session' = [session EXCEPT ![s] = [peer_id |-> p, protocol_id |-> id]]
    /\ peers' = try_ckb_protocol_connec(p)
    /\ result' = [result EXCEPT ![s] = "Ok"]
    /\ pc' = [pc EXCEPT ![s] = "check_state"]
    /\ UNCHANGED <<tied, val, consumed, protocol_connec, peer_store, updates,
                   spawned, handler, now>>

\* ClaimErr without the early return: the session goes on to the state check.
ClaimErr_FallThrough(s, p, id, endpoint) ==
    /\ pc[s] = "new"
    /\ session' = [session EXCEPT ![s] = [peer_id |-> p, protocol_id |-> id]]
    /\ result' = [result EXCEPT ![s] = "Err"]
    /\ pc' = [pc EXCEPT ![s] = "check_state"]
    /\ UNCHANGED <<tied, val, consumed, peers, protocol_connec, peer_store,
                   updates, spawned, handler, now>>

\* Slot claim failed: return future::err.
ClaimErr(s, p, id, endpoint) ==
    /\ pc[s] = "new"
    /\ session' = [session EXCEPT ![s] = [peer_id |-> p, protocol_id |-> id]]
    /\ result' = [result EXCEPT ![s] = "Err"]
    /\ pc' = [pc EXCEPT ![s] = "claim_err"]
    /\ UNCHANGED <<tied, val, consumed, peers, protocol_connec, peer_store,
                   updates, spawned, handler, now>>

\* CheckState without the Full test: the session always goes on.
CheckState_Unchecked(s) ==
    /\ pc[s] = "check_state"
    /\ pc' = [pc EXCEPT ![s] = "peer_index"]
    /\ UNCHANGED <<session, result, tied, val, consumed, peers, protocol_connec,
                   peer_store, updates, spawned, handler, now>>

\* protocol_connec.state() == Full: return future::ok(()).
CheckState(s) ==
    /\ pc[s] = "check_state"
    /\ pc' = [pc EXCEPT ![s] =
          IF state(SlotOf(s)) = "Full" THEN "already_connected"
          ELSE "peer_index"]
    /\ UNCHANGED <<session, result, tied, val, consumed, peers, protocol_connec,
                   peer_store, updates, spawned, handler, now>>

\* PeerIndex that goes on without an index.
PeerIndex_Unchecked(s) ==
    /\ pc[s] = "peer_index"
    /\ pc' = [pc EXCEPT ![s] = "tie"]
    /\ UNCHANGED <<session, result, tied, val, consumed, peers, protocol_connec,
                   peer_store, updates, spawned, handler, now>>

\* network.get_peer_index: None returns future::err.
PeerIndex(s) ==
    /\ pc[s] = "peer_index"
    /\ pc' = [pc EXCEPT ![s] =
          IF get_peer_index(session[s].peer_id) THEN "tie" ELSE "index_err"]
    /\ UNCHANGED <<session, result, tied, val, consumed, peers, protocol_connec,
                   peer_store, updates, spawned, handler, now>>

\* tie_or_stop that takes the slot whatever its state.
tie_or_stop_Override(s) ==
    /\ pc[s] = "tie"
    /\ protocol_connec' = [protocol_connec EXCEPT ![SlotOf(s)] = s]
    /\ tied' = [tied EXCEPT ![s] = TRUE]
    /\ val' = val
    /\ pc' = [pc EXCEPT ![s] = "store_connect"]
    /\ UNCHANGED <<session, result, consumed, peers, peer_store, updates, spawned,
                   handler, now>>

\* protocol_connec.tie_or_stop: Empty becomes Full; a Full slot is kept and
\* the returned future is already complete.
tie_or_stop(s) ==
    /\ pc[s] = "tie"
    /\ IF state(SlotOf(s)) = "Empty"
       THEN /\ protocol_connec' = [protocol_connec EXCEPT ![SlotOf(s)] = s]
            /\ tied' = [tied EXCEPT ![s] = TRUE]
            /\ val' = val
       ELSE /\ val' = [val EXCEPT ![s] = "Ok"]
            /\ UNCHANGED <<protocol_connec, tied>>
    /\ pc' = [pc EXCEPT ![s] = "store_connect"]
    /\ UNCHANGED <<session, result, consumed, peers, peer_store, updates, spawned,
                   handler, now>>

\* StoreConnect whose lock scope reaches over tokio::spawn(handle_connected).
StoreConnect_HoldsLock(s) ==
    /\ pc[s] = "store_connect"
    /\ peer_store' = update_status(report(peer_store, session[s].peer_id, "Connect"),
                                   session[s].peer_id, "Connected")
    /\ updates' = [updates EXCEPT ![s].Connected = @ + 1]
    /\ spawned' = spawned \cup {[kind |-> "connected", s |-> s, data |-> 0]}
    /\ pc' = [pc EXCEPT ![s] = "polling"]
    /\ UNCHANGED <<session, result, tied, val, consumed, peers, protocol_connec,
                   handler, now>>

\* StoreConnect with the status of the teardown block.
StoreConnect_WrongStatus(s) ==
    /\ pc[s] = "store_connect"
    /\ peer_store' = update_status(report(peer_store, session[s].peer_id, "Connect"),
                                   session[s].peer_id, "Disconnected")
    /\ updates' = [updates EXCEPT ![s].Disconnected = @ + 1]
    /\ pc' = [pc EXCEPT ![s] = "spawn_connected"]
    /\ UNCHANGED <<session, result, tied, val, consumed, peers, protocol_connec,
                   spawned, handler, now>>

\* peer_store.report(Connect); peer_store.update_status(Connected).
StoreConnect(s) ==
    /\ pc[s] = "store_connect"
    /\ peer_store' = update_status(report(peer_store, session[s].peer_id, "Connect"),
                                   session[s].peer_id, "Connected")
    /\ updates' = [updates EXCEPT ![s].Connected = @ + 1]
    /\ pc' = [pc EXCEPT ![s] = "spawn_connected"]
    /\ UNCHANGED <<session, result, tied, val, consumed, peers, protocol_connec,
                   spawned, handler, now>>

\* tokio::spawn(handle_connected); the future is returned to the caller.
SpawnConnected(s) ==
    /\ pc[s] = "spawn_connected"
    /\ spawned' = spawned \cup {[kind |-> "connected", s |-> s, data |-> 0]}
    /\ pc' = [pc EXCEPT ![s] = "polling"]
    /\ UNCHANGED <<session, result, tied, val, consumed, peers, protocol_connec,
                   peer_store, updates, handler, now>>

\* ---- the returned future: handling_future inside tie_or_stop ----

\* Received that writes a time taken earlier than the last clock reading.
\* Received that takes the next message before the spawn for the last one.
Received_Eager(s, t) ==
    /\ pc[s] \in {"polling", "spawn_received"}
    /\ tied[s]
    /\ val[s] = "none"
    /\ consumed[s] < MaxMsgs
    /\ t \in now..MaxTime
    /\ now' = t
    /\ peers' = modify_peer(session[s].peer_id, t)
    /\ consumed' = [consumed EXCEPT ![s] = @ + 1]
    /\ pc' = [pc EXCEPT ![s] = "spawn_received"]
    /\ UNCHANGED <<session, result, tied, val, protocol_connec, peer_store, updates,
                   spawned, handler>>

Received_StaleTime(s, t) ==
    /\ pc[s] = "polling"
    /\ tied[s]
    /\ val[s] = "none"
    /\ consumed[s] < MaxMsgs
    /\ t \in 0..MaxTime
    /\ now' = IF t > now THEN t ELSE now
    /\ peers' = modify_peer(session[s].peer_id, t)
    /\ consumed' = [consumed EXCEPT ![s] = @ + 1]
    /\ pc' = [pc EXCEPT ![s] = "spawn_received"]
    /\ UNCHANGED <<session, result, tied, val, protocol_connec, peer_store, updates,
                   spawned, handler>>

\* for_each closure, first half: modify_peer writes last_message_time.
Received(s, t) ==
    /\ pc[s] = "polling"
    /\ tied[s]
    /\ val[s] = "none"
    /\ consumed[s] < MaxMsgs
    /\ t \in now..MaxTime
    /\ now' = t
    /\ peers' = modify_peer(session[s].peer_id, t)
    /\ consumed' = [consumed EXCEPT ![s] = @ + 1]
    /\ pc' = [pc EXCEPT ![s] = "spawn_received"]
    /\ UNCHANGED <<session, result, tied, val, protocol_connec, peer_store, updates,
                   spawned, handler>>

\* SpawnReceived that calls the handler on the session task itself.
SpawnReceived_Inline(s) ==
    /\ pc[s] = "spawn_received"
    /\ handler' = [handler EXCEPT ![s].received = @ \cup {consumed[s]}]
    /\ pc' = [pc EXCEPT ![s] = "polling"]
    /\ UNCHANGED <<session, result, tied, val, consumed, peers, protocol_connec,
                   peer_store, updates, spawned, now>>

\* SpawnReceived that drops the item without handing it to the handler.
SpawnReceived_Dropped(s) ==
    /\ pc[s] = "spawn_received"
    /\ pc' = [pc EXCEPT ![s] = "polling"]
    /\ UNCHANGED <<session, result, tied, val, consumed, peers, protocol_connec,
                   peer_store, updates, spawned, handler, now>>

\* for_each closure, second half: tokio::spawn(handle_received).
SpawnReceived(s) ==
    /\ pc[s] = "spawn_received"
    /\ spawned' = spawned \cup {[kind |-> "received", s |-> s, data |-> consumed[s]]}
    /\ pc' = [pc EXCEPT ![s] = "polling"]
    /\ UNCHANGED <<session, result, tied, val, consumed, peers, protocol_connec,
                   peer_store, updates, handler, now>>

\* The transport ends the tied session: the stream ends or the slot is
\* cleared (Ok), or the stream fails (Err).  It is seen at the next poll.
Terminate(s, r) ==
    /\ pc[s] = "polling"
    /\ tied[s]
    /\ val[s] = "none"
    /\ val' = [val EXCEPT ![s] = r]
    /\ UNCHANGED <<pc, session, result, tied, consumed, peers, protocol_connec,
                   peer_store, updates, spawned, handler, now>>

\* Complete with and_then in place of then: an Err skips the teardown.
Complete_AndThen(s) ==
    /\ pc[s] = "polling"
    /\ val[s] # "none"
    /\ protocol_connec' =
          IF tied[s] /\ protocol_connec[SlotOf(s)] = s
          THEN [protocol_connec EXCEPT ![SlotOf(s)] = Empty]
          ELSE protocol_connec
    /\ pc' = [pc EXCEPT ![s] = IF val[s] = "Ok" THEN "store_disconnect" ELSE "done"]
    /\ UNCHANGED <<session, result, tied, val, consumed, peers, peer_store,
                   updates, spawned, handler, now>>

\* The tie_or_stop future completes; a slot this session made Full is
\* released.
Complete(s) ==
    /\ pc[s] = "polling"
    /\ val[s] # "none"
    /\ protocol_connec' =
          IF tied[s] /\ protocol_connec[SlotOf(s)] = s
          THEN [protocol_connec EXCEPT ![SlotOf(s)] = Empty]
          ELSE protocol_connec
    /\ pc' = [pc EXCEPT ![s] = "store_disconnect"]
    /\ UNCHANGED <<session, result, tied, val, consumed, peers, peer_store, updates,
                   spawned, handler, now>>

\* ---- the `then` closure: teardown ----

\* StoreDisconnect that reports the behaviour and leaves the status alone.
StoreDisconnect_ReportOnly(s) ==
    /\ pc[s] = "store_disconnect"
    /\ peer_store' = report(peer_store, session[s].peer_id, "UnexpectedDisconnect")
    /\ updates' = [updates EXCEPT ![s].Disconnected = @ + 1]
    /\ pc' = [pc EXCEPT ![s] = "disconnected"]
    /\ UNCHANGED <<session, result, tied, val, consumed, peers, protocol_connec,
                   spawned, handler, now>>

\* StoreDisconnect that also removes the peer, ahead of the callback.
StoreDisconnect_DropFirst(s) ==
    /\ pc[s] = "store_disconnect"
    /\ peer_store' = update_status(
          report(peer_store, session[s].peer_id, "UnexpectedDisconnect"),
          session[s].peer_id, "Disconnected")
    /\ updates' = [updates EXCEPT ![s].Disconnected = @ + 1]
    /\ peers' = drop_peer(session[s].peer_id)
    /\ pc' = [pc EXCEPT ![s] = "disconnected"]
    /\ UNCHANGED <<session, result, tied, val, consumed, protocol_connec,
                   spawned, handler, now>>

\* peer_store.report(UnexpectedDisconnect); update_status(Disconnected).
StoreDisconnect(s) ==
    /\ pc[s] = "store_disconnect"
    /\ peer_store' = update_status(
          report(peer_store, session[s].peer_id, "UnexpectedDisconnect"),
          session[s].peer_id, "Disconnected")
    /\ updates' = [updates EXCEPT ![s].Disconnected = @ + 1]
    /\ pc' = [pc EXCEPT ![s] = "disconnected"]
    /\ UNCHANGED <<session, result, tied, val, consumed, peers, protocol_connec,
                   spawned, handler, now>>

\* Disconnected called from inside the inbound loop, which then goes on.
Disconnected_InLoop(s) ==
    /\ pc[s] = "disconnected"
    /\ handler' = [handler EXCEPT ![s].disconnected = @ + 1]
    /\ val' = [val EXCEPT ![s] = "none"]
    /\ pc' = [pc EXCEPT ![s] = "polling"]
    /\ UNCHANGED <<session, result, tied, consumed, peers, protocol_connec,
                   peer_store, updates, spawned, now>>

\* protocol_handler.disconnected, called on the session task itself.
Disconnected(s) ==
    /\ pc[s] = "disconnected"
    /\ handler' = [handler EXCEPT ![s].disconnected = @ + 1]
    /\ pc' = [pc EXCEPT ![s] = "drop_peer"]
    /\ UNCHANGED <<session, result, tied, val, consumed, peers, protocol_connec,
                   peer_store, updates, spawned, now>>

\* network.drop_peer; the closure returns val.
DropPeer(s) ==
    /\ pc[s] = "drop_peer"
    /\ peers' = drop_peer(session[s].peer_id)
    /\ pc' = [pc EXCEPT ![s] = "done"]
    /\ UNCHANGED <<session, result, tied, val, consumed, protocol_connec, peer_store,
                   updates, spawned, handler, now>>

\* ---- spawned tasks ----

\* handle_connected / handle_received run on the executor.
RunTask(t) ==
    /\ t \in spawned
    /\ spawned' = spawned \ {t}
    /\ handler' = [handler EXCEPT
          ![t.s].connected = IF t.kind = "connected" THEN @ + 1 ELSE @,
          ![t.s].received = IF t.kind = "received" THEN @ \cup {t.data} ELSE @]
    /\ UNCHANGED <<pc, session, result, tied, val, consumed, peers, protocol_connec,
                   peer_store, updates, now>>

Tasks == [kind : {"connected", "received"}, s : Sessions, data : 0..MaxMsgs]

Results == {"Ok", "Err"}

Next ==
    \/ \E s \in Sessions, p \in PeerIds, id \in ProtocolIds, e \in Endpoints :
          ClaimOk(s, p, id, e)
    \/ \E s \in Sessions, p \in PeerIds, id \in ProtocolIds, e \in Endpoints :
          ClaimErr(s, p, id, e)
    \/ \E s \in Sessions : CheckState(s)
    \/ \E s \in Sessions : PeerIndex(s)
    \/ \E s \in Sessions : tie_or_stop(s)
    \/ \E s \in Sessions : StoreConnect(s)
    \/ \E s \in Sessions : SpawnConnected(s)
    \/ \E s \in Sessions, t \in 0..MaxTime : Received(s, t)
    \/ \E s \in Sessions : SpawnReceived(s)
    \/ \E s \in Sessions, r \in Results : Terminate(s, r)
    \/ \E s \in Sessions : Complete(s)
    \/ \E s \in Sessions : StoreDisconnect(s)
    \/ \E s \in Sessions : Disconnected(s)
    \/ \E s \in Sessions : DropPeer(s)
    \/ \E t \in Tasks : RunTask(t)

Spec == Init /\ [][Next]_vars

\* The session task is scheduled fairly; what the transport does
\* (negotiating a session, delivering a message, ending a stream) is not.
SessionStep(s) ==
    \/ CheckState(s) \/ PeerIndex(s) \/ tie_or_stop(s) \/ StoreConnect(s)
    \/ SpawnConnected(s) \/ SpawnReceived(s) \/ Complete(s)
    \/ StoreDisconnect(s) \/ Disconnected(s) \/ DropPeer(s)

FairSpec ==
    /\ Init /\ [][Next]_vars
    /\ \A s \in Sessions : WF_vars(SessionStep(s))

\* The executor also runs what was spawned: as long as a task is waiting,
\* some waiting task is eventually run.  Every task is spawned once, so this
\* gives every task its turn.
ExecSpec ==
    /\ Init /\ [][Next]_vars
    /\ \A s \in Sessions : WF_vars(SessionStep(s))
    /\ WF_vars(\E t \in Tasks : RunTask(t))

\* The session task is scheduled fairly, but no handler callback has to
\* return: neither the spawned ones nor the disconnected call of the teardown.
TaskStep(s) ==
    \/ CheckState(s) \/ PeerIndex(s) \/ tie_or_stop(s) \/ StoreConnect(s)
    \/ SpawnConnected(s) \/ SpawnReceived(s) \/ Complete(s)
    \/ StoreDisconnect(s) \/ DropPeer(s)

HangSpec ==
    /\ Init /\ [][Next]_vars
    /\ \A s \in Sessions : WF_vars(TaskStep(s))

\* ---- vocabulary of the properties ----

PeerOf(s) == session[s].peer_id

\* tie_or_stop has been called by the session.
AfterTie(s) ==
    pc[s] \in {"store_connect", "spawn_connected", "polling", "spawn_received",
               "store_disconnect", "disconnected", "drop_peer", "done"}

\* The session's tie_or_stop found the slot Full.
LostTie(s) == AfterTie(s) /\ ~tied[s]

\* The session has taken a step.
Steps(s) == pc'[s] # pc[s]

TasksOf(s) == {t \in spawned : t.s = s}

NoCallbacks(s) ==
    /\ TasksOf(s) = {}
    /\ handler[s].connected = 0
    /\ handler[s].received = {}
    /\ handler[s].disconnected = 0

\* connected callbacks spawned or run, over all sessions of a slot
ConnectedCallbacks(c) ==
    Cardinality({s \in Sessions : /\ result[s] = "Ok"
                                  /\ SlotOf(s) = c
                                  /\ \/ handler[s].connected > 0
                                     \/ \E t \in TasksOf(s) : t.kind = "connected"})

\* sessions of a peer that wrote Connected and have not written Disconnected
OpenSessions(p) ==
    {s \in Sessions : /\ result[s] = "Ok"
                      /\ PeerOf(s) = p
                      /\ updates[s].Connected = 1
                      /\ updates[s].Disconnected = 0}

\* ---- C1 ----
\* C1: of two sessions of one (peer, protocol) that both pass the Full check,
\* the one whose tie_or_stop finds the slot Full issues no handler callback,
\* and while both are alive one connected callback exists in total.
C1_DuplicateNegotiation ==
    \A s \in Sessions :
        LostTie(s) =>
            /\ NoCallbacks(s)
            /\ ConnectedCallbacks(SlotOf(s)) <= 1

\* ---- C2 ----
\* C2: a session whose tie_or_stop found the slot Full takes no step that
\* reports UnexpectedDisconnect, moves the peer's status away from Connected,
\* removes the peer from the registry or calls disconnected.
C2_ExistingSessionUntouched ==
    [][\A s \in Sessions :
          (LostTie(s) /\ Steps(s)) =>
              /\ peer_store'[PeerOf(s)].UnexpectedDisconnect
                    = peer_store[PeerOf(s)].UnexpectedDisconnect
              /\ (peer_store[PeerOf(s)].status = "Connected"
                    => peer_store'[PeerOf(s)].status = "Connected")
              /\ (peers[PeerOf(s)].present => peers'[PeerOf(s)].present)
              /\ handler'[s].disconnected = handler[s].disconnected]_vars

\* ---- C3 ----
\* C3 (as stated): for every peer, Connected updates minus Disconnected
\* updates is 0 or 1.  Read on the states where no tie_or_stop has found
\* its slot Full, so that several protocols of one peer are what decides it.
C3_PerPeerBalance ==
    (\A s \in Sessions : ~LostTie(s)) =>
        \A p \in PeerIds :
            peer_store[p].Connected - peer_store[p].Disconnected \in {0, 1}

\* C3 (amended): for every session the difference is 0 or 1, and for every
\* peer it is the number of its sessions that wrote Connected and have not
\* yet written Disconnected.
C3_PerSessionBalance ==
    /\ \A s \in Sessions :
          updates[s].Connected - updates[s].Disconnected \in {0, 1}
    /\ \A p \in PeerIds :
          peer_store[p].Connected - peer_store[p].Disconnected
             = Cardinality(OpenSessions(p))

\* two sessions of one peer, on different protocols, are both between
\* Connected and Disconnected
C3_Witness ==
    \E s, o \in Sessions :
        /\ {s, o} \subseteq OpenSessions(PeerOf(s))
        /\ tied[s] /\ tied[o]
        /\ session[s].protocol_id # session[o].protocol_id


\* ---- C4 ----
\* C4: a session writes Disconnected at most once and never before its
\* Connected, and once it has written Connected and its tie_or_stop future
\* has a completion value it eventually writes Disconnected.
C4_ConnectedThenDisconnected ==
    /\ [](\A s \in Sessions :
            /\ updates[s].Connected <= 1
            /\ updates[s].Disconnected <= updates[s].Connected)
    /\ \A s \in Sessions :
          (updates[s].Connected = 1 /\ val[s] # "none")
             ~> (updates[s].Disconnected = 1)

\* a tied session whose stream failed has written both updates
C4_Witness ==
    \E s \in Sessions :
        /\ tied[s] /\ val[s] = "Err"
        /\ updates[s].Connected = 1 /\ updates[s].Disconnected = 1

\* ---- C5 ----
\* C5: disconnected is invoked at most once per session, and from its
\* invocation on no task is spawned for that session.
C5_NoSpawnAfterDisconnected ==
    [][\A s \in Sessions :
          /\ handler'[s].disconnected <= 1
          /\ (handler'[s].disconnected = 1
                => {t \in spawned' : t.s = s} \subseteq TasksOf(s))]_vars

\* disconnected has been invoked for a session that spawned connected and a
\* received
C5_Witness ==
    \E s \in Sessions :
        /\ handler[s].disconnected = 1
        /\ consumed[s] >= 1
        /\ pc[s] = "done"

\* ---- C6 ----
\* C6: no connected or received callback body runs once the handler's
\* disconnected of that session has run.
C6_NoCallbackAfterDisconnected ==
    [][\A t \in Tasks :
          (t \in spawned /\ t \notin spawned') => handler[t.s].disconnected = 0]_vars

\* ---- C7 ----
\* C7 (as stated): when disconnected is about to run for a tied session the
\* Peer Store shows Disconnected for the peer and the peer is in the registry.
\* Read on the states where no tie_or_stop has found its slot Full.
C7_DisconnectedSeesStoreAndRegistry ==
    (\A s \in Sessions : ~LostTie(s)) =>
        \A s \in Sessions :
            (tied[s] /\ pc[s] = "disconnected") =>
                /\ peer_store[PeerOf(s)].status = "Disconnected"
                /\ peers[PeerOf(s)].present

\* C7 (amended): the teardown of a session is in the order store, callback,
\* removal: disconnected runs only after this session wrote Disconnected, and
\* this session removes the peer only after its disconnected has run.
C7_TeardownOrder ==
    [][\A s \in Sessions :
          /\ (handler'[s].disconnected # handler[s].disconnected
                => /\ updates[s].Disconnected = 1
                   /\ peers' = peers)
          /\ (Steps(s) /\ peers[PeerOf(s)].present /\ ~peers'[PeerOf(s)].present
                => /\ handler[s].disconnected = 1
                   /\ updates[s].Disconnected = 1)]_vars

\* a tied session has finished its teardown
C7_Witness ==
    \E s \in Sessions :
        /\ tied[s] /\ pc[s] = "done"
        /\ handler[s].disconnected = 1
        /\ ~peers[PeerOf(s)].present

\* ---- C8 ----
\* C8: only a session whose tie_or_stop made the slot Full records
\* Connect / Connected and spawns connected.
C8_ConnectedOnlyWhenTied ==
    \A s \in Sessions :
        (updates[s].Connected > 0
            \/ handler[s].connected > 0
            \/ \E t \in TasksOf(s) : t.kind = "connected") => tied[s]

\* ---- C9 ----
\* C9: the step at which the slot claim fails changes nothing but the
\* session's own result, and a session whose claim failed takes no other step.
C9_ClaimFailureIsNoOp ==
    [][\A s \in Sessions :
          (Steps(s) /\ result'[s] = "Err") =>
              /\ pc[s] = "new"
              /\ pc'[s] = "claim_err"
              /\ \A o \in Sessions \ {s} : pc'[o] = pc[o]
              /\ UNCHANGED <<tied, val, consumed, peers, protocol_connec,
                             peer_store, updates, spawned, handler, now>>]_vars

\* a claim has failed while another session is tied
C9_Witness ==
    \E s, o \in Sessions :
        pc[s] = "claim_err" /\ result[s] = "Err" /\ o # s /\ tied[o]

\* ---- C10 ----
\* C10: a session that finds no peer index ends in the error outcome at that
\* step, takes no other step, and has neither written to the Peer Store nor
\* caused any callback.
C10_MissingPeerIndex ==
    [][\A s \in Sessions :
          /\ (Steps(s) /\ pc[s] = "peer_index" /\ ~get_peer_index(PeerOf(s)))
                => /\ pc'[s] = "index_err"
                   /\ UNCHANGED <<tied, val, consumed, peers, protocol_connec,
                                  peer_store, updates, spawned, handler, now>>
          /\ (pc[s] = "index_err")
                => /\ pc'[s] = "index_err"
                   /\ updates'[s] = [Connected |-> 0, Disconnected |-> 0]
                   /\ {t \in spawned' : t.s = s} = {}
                   /\ handler'[s] = [connected |-> 0, received |-> {},
                                     disconnected |-> 0]]_vars

\* a session found its peer gone after the claim
C10_Witness ==
    \E s \in Sessions : pc[s] = "index_err" /\ ~peers[PeerOf(s)].present


\* ---- C11 ----
\* C11: a session that finds its slot Full at the state check ends in the
\* success outcome at that step, with nothing else changed; from then on it
\* takes no step, and it has consumed no stream item, written nothing to the
\* Peer Store and caused no callback.
C11_FullSlotIsNoOp ==
    [][\A s \in Sessions :
          /\ (Steps(s) /\ pc[s] = "check_state" /\ state(SlotOf(s)) = "Full")
                => /\ pc'[s] = "already_connected"
                   /\ UNCHANGED <<tied, val, consumed, peers, protocol_connec,
                                  peer_store, updates, spawned, handler, now>>
          /\ (pc[s] = "already_connected")
                => /\ pc'[s] = "already_connected"
                   /\ consumed'[s] = 0
                   /\ updates'[s] = [Connected |-> 0, Disconnected |-> 0]
                   /\ {t \in spawned' : t.s = s} = {}
                   /\ handler'[s] = [connected |-> 0, received |-> {},
                                     disconnected |-> 0]]_vars

\* a session returned at the state check while the slot's owner is still tied
C11_Witness ==
    \E s \in Sessions :
        /\ pc[s] = "already_connected"
        /\ state(SlotOf(s)) = "Full"
        /\ peers[PeerOf(s)].present


\* ---- C12 ----
ReceivedTask(s, k) == [kind |-> "received", s |-> s, data |-> k]

\* messages of a session whose for_each closure has returned
Handled(s) == IF pc[s] = "spawn_received" THEN consumed[s] - 1 ELSE consumed[s]

C13_LastMessageTimeMonotone ==
    [][\A p \in PeerIds :
          (peers[p].present /\ peers'[p].present)
             => peers'[p].last_message_time >= peers[p].last_message_time]_vars

\* a session has written the time of its second message, later than an
\* earlier reading of the clock could have been
C13_Witness ==
    \E s \in Sessions :
        /\ consumed[s] = 2
        /\ peers[PeerOf(s)].present
        /\ peers[PeerOf(s)].last_message_time = MaxTime
        /\ MaxTime > 0


C15_AllCallbacksDispatched ==
    [][\A s \in Sessions : Steps(s) => handler'[s] = handler[s]]_vars

\* where a session is when it waits for nothing but the transport or the
\* return of its disconnected call
AtRest(s) ==
    \/ pc[s] \in {"new", "claim_err", "already_connected", "index_err",
                  "disconnected", "drop_peer", "done"}
    \/ pc[s] = "polling" /\ val[s] = "none"

\* C15 (amended): connected and received never run on a session task and
\* running them moves no session, so with callbacks that never return every
\* session still takes its messages and carries its teardown up to the
\* disconnected call; disconnected is the one callback run inline.
C15_ConnectedReceivedDispatched ==
    /\ [][\A s \in Sessions :
            /\ Steps(s) => /\ handler'[s].connected = handler[s].connected
                           /\ handler'[s].received = handler[s].received
            /\ handler'[s].disconnected # handler[s].disconnected => Steps(s)
            /\ (handler'[s].connected # handler[s].connected
                  \/ handler'[s].received # handler[s].received)
                  => UNCHANGED <<pc, val, consumed, peers, protocol_connec,
                                 peer_store>>]_vars
    /\ []<>(\A s \in Sessions : AtRest(s))

\* a session took all its messages and reached its disconnected call while
\* none of its callbacks has run
C15_Witness ==
    \E s \in Sessions :
        /\ pc[s] = "disconnected"
        /\ consumed[s] = MaxMsgs
        /\ Cardinality(TasksOf(s)) = MaxMsgs + 1


\* ---- C16 ----
\* the session holds its slot Full
HoldsSlot(s) == result[s] = "Ok" /\ tied[s] /\ protocol_connec[SlotOf(s)] = s

\* C16: when the teardown of a session removes the peer from the registry,
\* no other session of that peer holds a Full slot.  Read on the states where
\* no tie_or_stop has found its slot Full, and for the peer's sessions on
\* another protocol.
C16_RemovedOnlyWhenFullyDisconnected ==
    [][(\A s \in Sessions : ~LostTie(s)) =>
          \A s \in Sessions :
              (Steps(s) /\ pc[s] = "drop_peer") =>
                  \A o \in Sessions \ {s} :
                      ~(/\ PeerOf(o) = PeerOf(s)
                        /\ session[o].protocol_id # session[s].protocol_id
                        /\ HoldsSlot(o))]_vars


\* ---- C17 ----
\* the session is tied and its tie_or_stop future has not completed
LiveTied(s) ==
    /\ result[s] = "Ok"
    /\ tied[s]
    /\ pc[s] \in {"store_connect", "spawn_connected", "polling", "spawn_received"}

\* C17: at any time at most one session is tied to the Full slot of a
\* (peer, protocol_id), and that session is the one the slot holds.
C17_OneTiedSessionPerSlot ==
    \A s \in Sessions :
        LiveTied(s) =>
            /\ protocol_connec[SlotOf(s)] = s
            /\ \A o \in Sessions \ {s} :
                   LiveTied(o) => SlotOf(o) # SlotOf(s)

\* a session is tied while another session of the same slot has come back
\* from tie_or_stop untied
C17_Witness ==
    \E s \in Sessions : \E o \in Sessions \ {s} :
        /\ LiveTied(s)
        /\ result[o] = "Ok"
        /\ SlotOf(o) = SlotOf(s)
        /\ pc[o] = "store_connect"
        /\ ~tied[o]


\* ---- C18 ----
\* The write guard of the Peer Store lives inside one block (lines 110-114,
\* lines 133-137): the lock is held during the steps StoreConnect and
\* StoreDisconnect and at no other time.
HoldsStoreLock(s) ==
    Steps(s) /\ pc[s] \in {"store_connect", "store_disconnect"}

\* C18: the Peer Store is written only in a step that holds its lock; such a
\* step invokes no callback and spawns none, and it ends before the callback
\* that follows it, never at a suspension point of the session.
C18_LockCoversOnlyThePair ==
    [][/\ (peer_store' # peer_store) <=> (\E s \in Sessions : HoldsStoreLock(s))
       /\ \A s \in Sessions :
             HoldsStoreLock(s) =>
                 /\ spawned' = spawned
                 /\ handler' = handler
                 /\ \/ pc[s] = "store_connect" /\ pc'[s] = "spawn_connected"
                    \/ pc[s] = "store_disconnect" /\ pc'[s] = "disconnected"]_vars

\* the pair of the teardown is written and disconnected is not yet called,
\* while a connected task of the session is still waiting on the executor
C18_Witness ==
    \E s \in Sessions :
        /\ pc[s] = "disconnected"
        /\ updates[s].Disconnected = 1
        /\ handler[s].disconnected = 0
        /\ [kind |-> "connected", s |-> s, data |-> 0] \in spawned

\* ---- C19 ----
\* C19: within a session, the step that writes the time of message k+1 finds
\* the received task of message k already spawned (waiting or run), and the
\* step that spawns a received task spawns the one of the message whose
\* time was written last, nothing else, and writes no time.
C19_BookkeepingInArrivalOrder ==
    [][\A s \in Sessions :
          /\ (consumed'[s] # consumed[s] /\ consumed[s] >= 1) =>
                /\ pc[s] = "polling"
                /\ \/ ReceivedTask(s, consumed[s]) \in spawned
                   \/ consumed[s] \in handler[s].received
          /\ (Steps(s) /\ pc[s] = "spawn_received") =>
                /\ spawned' = spawned \cup {ReceivedTask(s, consumed[s])}
                /\ ReceivedTask(s, consumed[s]) \notin spawned
                /\ consumed' = consumed
                /\ peers' = peers]_vars

\* the times of both messages were written in order and the second message
\* was delivered to the handler while the task of the first still waits
C19_Witness ==
    \E s \in Sessions :
        /\ pc[s] = "polling"
        /\ val[s] = "none"
        /\ consumed[s] = 2
        /\ 2 \in handler[s].received
        /\ 1 \notin handler[s].received
        /\ ReceivedTask(s, 1) \in spawned
        /\ peers[PeerOf(s)].last_message_time = now


\* ---- C20 ----
\* C20: in every state that a holder of the Peer Store lock can see, each
\* peer has as many Connect reports as Connected updates and as many
\* UnexpectedDisconnect reports as Disconnected updates; and every step that
\* writes the store writes the whole pair of exactly one session, report and
\* status together, and nothing of another pair.
C20_PairsAreAtomic ==
    /\ [](\A p \in PeerIds :
             /\ peer_store[p].Connect = peer_store[p].Connected
             /\ peer_store[p].UnexpectedDisconnect = peer_store[p].Disconnected)
    /\ [][peer_store' # peer_store =>
             \E s \in Sessions :
                 /\ \A o \in Sessions \ {s} : updates'[o] = updates[o]
                 /\ \A p \in PeerIds \ {PeerOf(s)} : peer_store'[p] = peer_store[p]
                 /\ LET old == peer_store[PeerOf(s)]
                        new == peer_store'[PeerOf(s)]
                    IN \/ /\ new.Connect = old.Connect + 1
                          /\ new.Connected = old.Connected + 1
                          /\ new.status = "Connected"
                          /\ new.UnexpectedDisconnect = old.UnexpectedDisconnect
                          /\ new.Disconnected = old.Disconnected
                          /\ updates'[s].Connected = updates[s].Connected + 1
                       \/ /\ new.UnexpectedDisconnect = old.UnexpectedDisconnect + 1
                          /\ new.Disconnected = old.Disconnected + 1
                          /\ new.status = "Disconnected"
                          /\ new.Connect = old.Connect
                          /\ new.Connected = old.Connected
                          /\ updates'[s].Disconnected = updates[s].Disconnected + 1]_vars

\* two sessions of one peer have both written their Connect pair and one of
\* them its UnexpectedDisconnect pair, the other being still tied
C20_Witness ==
    \E s \in Sessions : \E o \in Sessions \ {s} :
        /\ PeerOf(s) = PeerOf(o)
        /\ updates[s].Connected = 1 /\ updates[s].Disconnected = 1
        /\ updates[o].Connected = 1 /\ updates[o].Disconnected = 0
        /\ LiveTied(o)
        /\ peer_store[PeerOf(s)].Connect = 2
        /\ peer_store[PeerOf(s)].UnexpectedDisconnect = 1

====
